---- MODULE Spec2Model ----
(***************************************************************************)
(* Model of the Dash Marketing export service (src/main.py): the date      *)
(* range normaliser, the retry-wrapped fetcher, the whole-range and the    *)
(* monthly streaming exports, the running totals and the audit trailer.    *)
(***************************************************************************)
EXTENDS Integers, Sequences, FiniteSets, TLC

VARIABLES
    clamp,      \* one call of _clamp_dates: its inputs and its outcome
    backoff,    \* one failed attempt of _run_report: its inputs and its sleep
    aggcall,    \* one call of _agg_totals as tests/test_agg_totals.py makes it
    monthsplit, \* one range and the per-month sub-ranges exportar_mensual queries for it
    rowconv,    \* one row of a response and what _row_to_dict makes of it
    active,     \* which of two concurrent exports the export variables hold
    peer,       \* the export variables of the other, suspended, export
    credsOk,    \* whether the service-account key can be read
    client,     \* the BetaAnalyticsDataClient of the request, "none" before _ga4_client
    wire,       \* the client.run_report calls sent so far
    today,      \* dt.date.today()
    held,       \* the rows the remote source holds
    hintKind,   \* how the source reports row_count: "exact", "stale" or "none"
    tokens,     \* whether the source pages by continuation token
    withheld,   \* the source has answered with no rows while it owed some
    failures,   \* failed remote calls so far
    pc,         \* position of the export: idle, fetch, tail, done, rejected, failed
    mode,       \* "whole" (/exportar) or "monthly" (/exportar_mensual)
    params,     \* s_iso, e_iso, page_size, max_pages, rid of the request
    status,     \* HTTP status line delivered to the caller, 0 while none is
    out,        \* the chunks delivered to the caller, in order
    req,        \* the RunReportRequest being paged
    pages,      \* pages / pages_total
    total_rows_reported,
    sums,       \* sum_sessions, sum_users, sum_views, sum_conv, sum_rev
    first,      \* first / first_row
    page_token,
    offset,
    months,     \* the months still to export, monthly mode
    rr          \* the running call of _run_report

envVars == <<today, held, hintKind, tokens, credsOk>>

genVars == <<req, pages, total_rows_reported, sums, first, page_token, offset, months>>

exportVars == <<withheld, failures, pc, mode, params, status, out, genVars, rr, client, wire>>

fnVars == <<clamp, backoff, aggcall, monthsplit, rowconv>>

peerVars == <<active, peer>>

vars == <<fnVars, peerVars, envVars, exportVars>>

None == "None"

(***************************************************************************)
(* Calendar.  A date is <<year, month, day>>; a date string is the same    *)
(* numbers as written by the caller: three of them (possibly no calendar   *)
(* date at all), or fewer when the text lacks the YYYY-MM-DD shape.        *)
(***************************************************************************)
IsLeap(y) == (y % 4 = 0 /\ y % 100 # 0) \/ y % 400 = 0

DaysInMonth(y, m) ==
    IF m = 2 THEN (IF IsLeap(y) THEN 29 ELSE 28)
    ELSE IF m \in {4, 6, 9, 11} THEN 30 ELSE 31

DateLt(a, b) ==
    \/ a[1] < b[1]
    \/ a[1] = b[1] /\ a[2] < b[2]
    \/ a[1] = b[1] /\ a[2] = b[2] /\ a[3] < b[3]

DateLe(a, b) == a = b \/ DateLt(a, b)

DateMax(a, b) == IF DateLt(a, b) THEN b ELSE a

DateMin(a, b) == IF DateLt(b, a) THEN b ELSE a

\* d - timedelta(days=1)
PrevDay(d) ==
    IF d[3] > 1 THEN <<d[1], d[2], d[3] - 1>>
    ELSE IF d[2] > 1 THEN <<d[1], d[2] - 1, DaysInMonth(d[1], d[2] - 1)>>
    ELSE <<d[1] - 1, 12, 31>>

MIN_START_DATE == <<2024, 1, 1>>

\* strptime(s, "%Y-%m-%d"): the date, or the 400 of a malformed string
_parse_date(s) ==
    IF /\ Len(s) = 3
       /\ s[1] \in 1..9999
       /\ s[2] \in 1..12
       /\ s[3] \in 1..DaysInMonth(s[1], s[2])
    THEN [ok |-> TRUE, date |-> s]
    ELSE [ok |-> FALSE, status |-> 400, detail |-> "Invalid date format"]

isoformat(d) == d

ClampStartMut(ps) == ps.date

ClampStart(ps) == DateMax(ps.date, MIN_START_DATE)

\* _clamp_dates(start, end) evaluated on the day `day`
_clamp_dates(start, end, day) ==
    LET ps == _parse_date(start)
        pe == _parse_date(end)
    IN  IF ~ps.ok THEN ps
        ELSE IF ~pe.ok THEN pe
        ELSE LET s == ClampStart(ps)
                 e == DateMin(pe.date, PrevDay(day))
             IN  IF DateLt(e, s)
                 THEN [ok |-> FALSE, status |-> 400, detail |-> "Invalid range after clamp"]
                 ELSE [ok |-> TRUE, start |-> isoformat(s), end |-> isoformat(e)]

(***************************************************************************)
(* Backoff of the retry-wrapped fetcher.  Durations are in milliseconds.   *)
(* A Retry-After header is absent (None), or a text: empty, the text of a  *)
(* number of seconds (here its value in ms), or a text float() rejects.    *)
(***************************************************************************)
GA4_MAX_RETRIES == 3

Pow2(n) == IF n <= 0 THEN 1 ELSE 2 ^ n

Min2(a, b) == IF a < b THEN a ELSE b

Max2(a, b) == IF a > b THEN a ELSE b

NoHeader == [kind |-> "absent", ms |-> 0]

HeaderText(kind, ms) == [kind |-> kind, ms |-> ms]

\* `if retry_after:` is true of a non-empty text
Truthy(h) == h.kind \in {"number", "text"}

\* min(2 ** (attempt - 1) + random.random(), 60)
BaseSleepMut(attempt, jitter) == Pow2(attempt - 1) * 1000 + jitter

BaseSleep(attempt, jitter) == Min2(Pow2(attempt - 1) * 1000 + jitter, 60000)

\* the sleep computed in the except branch of _run_report
RetrySleep(attempt, jitter, retry_after) ==
    LET sleep == BaseSleep(attempt, jitter)
    IN  IF Truthy(retry_after) /\ retry_after.kind = "number"
        THEN Max2(sleep, retry_after.ms)
        ELSE sleep

(***************************************************************************)
(* The report schema and the conversion of a remote row.  A raw metric     *)
(* value is the text of a number, the empty text, or None; a converted     *)
(* value is a number or null.  A row dict is the sequence of its members   *)
(* <<name, value>> in insertion order.                                     *)
(***************************************************************************)
_dims ==
    <<"date", "country", "city", "deviceCategory", "pagePath",
      "sessionSource", "sessionMedium", "sessionCampaignName">>

_mets ==
    <<"activeUsers", "newUsers", "sessions", "screenPageViews", "engagementRate",
      "bounceRate", "averageSessionDuration", "conversions", "totalRevenue">>

SumNames == <<"sessions", "activeUsers", "screenPageViews", "conversions", "totalRevenue">>

NumText(n) == [t |-> "num", v |-> n]

EmptyText == [t |-> "empty", v |-> 0]

NoValue == [t |-> "none", v |-> 0]

Float(n) == [null |-> FALSE, v |-> n]

Null == [null |-> TRUE, v |-> 0]

\* a text that is neither empty nor a number, such as "(not set)"
BadText == [t |-> "text", v |-> 0]

\* float(val) raises ValueError on such a text
ValueError == [null |-> FALSE, v |-> 0, raised |-> "ValueError"]

\* float(val) if (val is not None and val != "") else None
MetricValue(val) ==
    IF val.t = "num" THEN Float(val.v)
    ELSE IF val.t \in {"empty", "none"} THEN Null
    ELSE ValueError

_row_to_dict(row) ==
    [i \in 1..Len(_dims) |-> <<_dims[i], row.dimension_values[i]>>]
    \o [j \in 1..Len(_mets) |-> <<_mets[j], MetricValue(row.metric_values[j])>>]

\* a call of _row_to_dict: the exception of the first float() that raises leaves it
call_row_to_dict(row) ==
    LET d == _row_to_dict(row)
        n == Len(_dims)
    IN  IF \E j \in 1..Len(_mets) : d[n + j][2] = ValueError
        THEN [raised |-> "ValueError", d |-> <<>>]
        ELSE [raised |-> "none", d |-> d]

\* d.get(name)
Get(d, name) == LET i == CHOOSE k \in 1..Len(d) : d[k][1] = name IN d[i][2]

OrZeroMut(x) == IF x.null THEN 1 ELSE x.v

\* d.get(name) or 0.0
OrZero(x) == IF x.null THEN 0 ELSE x.v

ZeroTotals == [m \in {SumNames[i] : i \in 1..Len(SumNames)} |-> 0]

\* the five `sum_x += d.get(x) or 0.0` statements
AddRow(acc, d) == [m \in DOMAIN acc |-> acc[m] + OrZero(Get(d, m))]

RECURSIVE AddRows(_, _)
AddRows(acc, ds) ==
    IF ds = <<>> THEN acc ELSE AddRows(AddRow(acc, Head(ds)), Tail(ds))

(***************************************************************************)
(* Ratios are exact: the fraction num/den in lowest terms with den > 0.    *)
(***************************************************************************)
Abs(n) == IF n < 0 THEN -n ELSE n

RECURSIVE Gcd(_, _)
Gcd(a, b) == IF b = 0 THEN a ELSE Gcd(b, a % b)

Frac(n, d) ==
    LET g == Gcd(Abs(n), Abs(d))
        sgn == IF d < 0 THEN -1 ELSE 1
    IN  [num |-> sgn * (n \div g), den |-> sgn * (d \div g)]

PctDiffMut(a, b) == IF b = 0 THEN Frac(0, 1) ELSE Frac(b - a, b)

\* 0.0 if (b or 0.0) == 0.0 else (a - b) / b
_pct_diff(a, b) == IF b = 0 THEN Frac(0, 1) ELSE Frac(a - b, b)

(***************************************************************************)
(* JSON text, as the sequence of its tokens: "{" "}" "[" "]" "," ":" and   *)
(* "s" for a string, "v" for a number, true, false or null.                *)
(***************************************************************************)
RECURSIVE Join(_)
Join(parts) ==
    IF parts = <<>> THEN <<>>
    ELSE IF Len(parts) = 1 THEN parts[1]
    ELSE parts[1] \o <<",">> \o Join(Tail(parts))

\* json.dumps of a dict whose values have the token sequences vals[i]
DumpsObject(vals) ==
    <<"{">> \o Join([i \in 1..Len(vals) |-> <<"s", ":">> \o vals[i]]) \o <<"}">>

Scalar == <<"v">>

Text == <<"s">>

\* _dumps(d) of a row dict
DumpsRow(d) ==
    DumpsObject([i \in 1..Len(d) |-> IF i <= Len(_dims) THEN Text ELSE Scalar])

\* _dumps(body_tail): the members in insertion order, "reason" last if present
DumpsTail(body) ==
    LET five == DumpsObject([i \in 1..Len(SumNames) |-> Scalar])
        audit == DumpsObject(
            <<five, five, five, Scalar, Scalar, Scalar>>
            \o (IF body.has_reason THEN <<Text>> ELSE <<>>))
    IN  DumpsObject(
            <<Scalar, Text, Text, Scalar, Scalar, audit>>
            \o (IF body.has_reason THEN <<Text>> ELSE <<>>))

\* the bytes of one emitted chunk
ChunkTokens(c) ==
    CASE c.kind = "open" -> <<"{", "s", ":", "[">>
      [] c.kind = "comma" -> <<",">>
      [] c.kind = "row" -> DumpsRow(c.body)
      [] c.kind = "close_rows" -> <<"]", ",">>
      [] c.kind = "tail" -> DumpsTail(c.body)
      [] c.kind = "close" -> <<"}">>

RECURSIVE Concat(_)
Concat(chunks) ==
    IF chunks = <<>> THEN <<>> ELSE ChunkTokens(Head(chunks)) \o Concat(Tail(chunks))

(***************************************************************************)
(* The JSON grammar as a pushdown recogniser.  st.stack holds the open     *)
(* containers, st.want what may come next.                                 *)
(***************************************************************************)
AfterValue(stack) ==
    [stack |-> stack, want |-> IF stack = <<>> THEN "end" ELSE "comma_or_close"]

Pop(stack) == SubSeq(stack, 1, Len(stack) - 1)

Top(stack) == stack[Len(stack)]

Bad == [stack |-> <<>>, want |-> "error"]

JsonStep(st, tok) ==
    LET stack == st.stack
        want == st.want
        closes == /\ stack # <<>>
                  /\ \/ tok = "}" /\ Top(stack) = "{"
                     \/ tok = "]" /\ Top(stack) = "["
    IN  CASE want \in {"value", "value_or_close"} /\ tok \in {"s", "v"} ->
                AfterValue(stack)
          [] want \in {"value", "value_or_close"} /\ tok = "{" ->
                [stack |-> Append(stack, "{"), want |-> "key_or_close"]
          [] want \in {"value", "value_or_close"} /\ tok = "[" ->
                [stack |-> Append(stack, "["), want |-> "value_or_close"]
          [] want = "value_or_close" /\ tok = "]" -> AfterValue(Pop(stack))
          [] want \in {"key", "key_or_close"} /\ tok = "s" ->
                [stack |-> stack, want |-> "colon"]
          [] want = "key_or_close" /\ tok = "}" -> AfterValue(Pop(stack))
          [] want = "colon" /\ tok = ":" -> [stack |-> stack, want |-> "value"]
          [] want = "comma_or_close" /\ tok = "," ->
                [stack |-> stack, want |-> IF Top(stack) = "{" THEN "key" ELSE "value"]
          [] want = "comma_or_close" /\ closes -> AfterValue(Pop(stack))
          [] OTHER -> Bad

RECURSIVE JsonRun(_, _)
JsonRun(st, toks) ==
    IF toks = <<>> THEN st ELSE JsonRun(JsonStep(st, Head(toks)), Tail(toks))

\* json.loads accepts the text
ValidJSON(toks) == JsonRun([stack |-> <<>>, want |-> "value"], toks).want = "end"


(***************************************************************************)
(* Bounds of the model.                                                    *)
(***************************************************************************)
MaxRows == 3

MaxPageSize == 2

MaxPages == 3

MaxFailures == 3

(***************************************************************************)
(* The remote report source.  It holds rows, each dated, in the stable     *)
(* order of the request (date first).  A report request names a date       *)
(* range, a limit, an offset and a continuation token; the token is the    *)
(* position the next page starts at, 0 when there is none.                 *)
(***************************************************************************)
RowDateA == <<2024, 1, 20>>

RowDateB == <<2024, 3, 5>>

NoToken == 0

NoCount == -1

\* the metric texts of the i-th row the source holds
MetricsAt(i) ==
    CASE i = 1 -> <<NumText(4), NumText(1), NumText(10), NumText(7), NumText(1),
                    NumText(0), NumText(30), NumText(1), NumText(3)>>
      [] i = 2 -> <<EmptyText, NumText(2), NumText(20), NoValue, NumText(1),
                    NumText(0), NumText(45), NumText(2), EmptyText>>
      [] i = 3 -> <<NumText(6), NoValue, NumText(5), NumText(9), EmptyText,
                    NumText(1), NumText(12), EmptyText, NumText(8)>>
      [] OTHER -> <<NumText(i), NumText(1), NumText(i), NumText(2), NumText(1),
                    NumText(0), NumText(5), NoValue, NumText(1)>>

RemoteRow(i, date) ==
    [dimension_values |-> <<date, "MX", "CDMX", "mobile", "/", "google", "organic", "(none)">>,
     metric_values |-> MetricsAt(i)]

\* a source holding na rows dated RowDateA followed by nb rows dated RowDateB
HeldRows(na, nb) ==
    [i \in 1..(na + nb) |-> RemoteRow(i, IF i <= na THEN RowDateA ELSE RowDateB)]

RowsInRange(rows, s, e) ==
    SelectSeq(rows, LAMBDA r : DateLe(s, r.dimension_values[1]) /\ DateLe(r.dimension_values[1], e))

\* where the requested page starts
PageStart(rq) == IF rq.page_token # NoToken THEN rq.page_token ELSE rq.offset

\* the rows the source owes for the request
HonestPage(rows, rq) ==
    LET all == RowsInRange(rows, rq.start, rq.end)
        from == PageStart(rq)
    IN  SubSeq(all, from + 1, Min2(from + rq.limit, Len(all)))

\* the source's answer: `serve` says whether it serves the page or withholds it
RemoteResponse(rows, hint, paged, rq, serve) ==
    LET all == RowsInRange(rows, rq.start, rq.end)
        page == IF serve THEN HonestPage(rows, rq) ELSE <<>>
        next == PageStart(rq) + Len(page)
    IN  [rows |-> page,
         row_count |-> CASE hint = "exact" -> Len(all)
                         [] hint = "stale" -> Max2(Len(all) - 1, 0)
                         [] OTHER -> NoCount,
         next_page_token |-> IF paged /\ page # <<>> /\ next < Len(all) THEN next ELSE NoToken]

RECURSIVE SumSeq(_)
SumSeq(s) == IF s = <<>> THEN 0 ELSE Head(s) + SumSeq(Tail(s))

MetIndex(name) == CHOOSE j \in 1..Len(_mets) : _mets[j] = name

\* what the source's rows add up to for one metric (a text that is no number counts 0)
RawSum(rows, name) ==
    SumSeq([i \in 1..Len(rows) |->
        LET val == rows[i].metric_values[MetIndex(name)]
        IN  IF val.t = "num" THEN val.v ELSE 0])

\* the source's answer to the aggregate request, by the kind of answer it gives
RemoteAggregate(rows, areq, kind) ==
    LET all == RowsInRange(rows, areq.start, areq.end)
        n == Len(areq.metrics)
    IN  CASE kind = "norows" -> [rows |-> <<>>]
          [] kind = "blank" -> [rows |-> <<[metric_values |-> [i \in 1..n |-> EmptyText]]>>]
          [] kind = "skewed" ->
                [rows |-> <<[metric_values |->
                    [i \in 1..n |-> NumText(RawSum(all, areq.metrics[i]) + 5)]]>>]
          [] OTHER ->
                [rows |-> <<[metric_values |->
                    [i \in 1..n |-> NumText(RawSum(all, areq.metrics[i]))]]>>]

AggKinds == {"true", "skewed", "blank", "norows"}

\* a RunReportRequest field that was not set
NoFilter == "unset"

\* an aggregate request over the last day only
AggRequestMut(start_iso, end_iso) ==
    [start |-> end_iso, end |-> end_iso, dimensions |-> <<>>, dimension_filter |-> NoFilter,
     metrics |-> SumNames, limit |-> 1]

\* the RunReportRequest _agg_totals builds
AggRequest(start_iso, end_iso) ==
    [start |-> start_iso, end |-> end_iso, dimensions |-> <<>>, dimension_filter |-> NoFilter,
     metrics |-> SumNames, limit |-> 1]

\* _agg_totals, given the response of its one remote call
_agg_totals(resp) ==
    [m \in DOMAIN ZeroTotals |->
        IF resp.rows = <<>> THEN 0
        ELSE LET i == CHOOSE k \in 1..Len(SumNames) : SumNames[k] = m
                 val == resp.rows[1].metric_values[i]
             IN  IF val.t = "num" THEN val.v ELSE 0]

(***************************************************************************)
(* The retry-wrapped fetcher.  A run is one call of _run_report; an        *)
(* outcome is what the remote call of one attempt did.                     *)
(***************************************************************************)
NoResp == [rows |-> <<>>, row_count |-> NoCount, next_page_token |-> NoToken]

IdleRun ==
    [state |-> "idle", attempt |-> 0, calls |-> 0, log |-> <<>>, slept |-> <<>>,
     history |-> <<>>, resp |-> NoResp, error |-> "none"]

StartRun == [IdleRun EXCEPT !.state = "running", !.attempt = 1]

Success(resp) ==
    [ok |-> TRUE, resp |-> resp, exc |-> "none", status |-> 200,
     retry_after |-> NoHeader, jitter |-> 0]

Failure(exc, code, retry_after, jitter) ==
    [ok |-> FALSE, resp |-> NoResp, exc |-> exc, status |-> code,
     retry_after |-> retry_after, jitter |-> jitter]

Failures ==
    {Failure("ServiceUnavailable", 503, NoHeader, 0),
     Failure("ResourceExhausted", 429, HeaderText("number", 5000), 999)}

LastAttemptMut(attempt) == attempt > GA4_MAX_RETRIES

\* `if attempt == GA4_MAX_RETRIES: raise`
LastAttempt(attempt) == attempt = GA4_MAX_RETRIES

\* one iteration of a loop that logs failed attempts only
RunReportSilentSuccess(run, outcome, rid) ==
    LET called == [run EXCEPT !.calls = @ + 1, !.history = Append(@, outcome)]
    IN  IF outcome.ok
        THEN [called EXCEPT !.state = "returned", !.resp = outcome.resp]
        ELSE LET sleep == RetrySleep(run.attempt, outcome.jitter, outcome.retry_after)
                 logged == [called EXCEPT
                    !.log = Append(@, [attempt |-> run.attempt, status |-> outcome.status,
                                       sleep_ms |-> sleep, request_id |-> rid])]
             IN  IF LastAttempt(run.attempt)
                 THEN [logged EXCEPT !.state = "raised", !.error = outcome.exc]
                 ELSE [logged EXCEPT !.slept = Append(@, sleep), !.attempt = @ + 1]

\* one iteration of the loop of _run_report, the remote call having ended as `outcome`
_run_report(run, outcome, rid) ==
    LET called == [run EXCEPT !.calls = @ + 1, !.history = Append(@, outcome)]
    IN  IF outcome.ok
        THEN [called EXCEPT
                !.log = Append(@, [attempt |-> run.attempt, status |-> 200,
                                   sleep_ms |-> 0, request_id |-> rid]),
                !.state = "returned",
                !.resp = outcome.resp]
        ELSE LET sleep == RetrySleep(run.attempt, outcome.jitter, outcome.retry_after)
                 logged == [called EXCEPT
                    !.log = Append(@, [attempt |-> run.attempt, status |-> outcome.status,
                                       sleep_ms |-> sleep, request_id |-> rid])]
             IN  IF LastAttempt(run.attempt)
                 THEN [logged EXCEPT !.state = "raised", !.error = outcome.exc]
                 ELSE IF run.attempt < GA4_MAX_RETRIES
                 THEN [logged EXCEPT !.slept = Append(@, sleep), !.attempt = @ + 1]
                 \* range(1, GA4_MAX_RETRIES + 1) is used up: the function ends
                 ELSE [logged EXCEPT !.slept = Append(@, sleep), !.state = "returned"]

(***************************************************************************)
(* The pagination engine.                                                  *)
(***************************************************************************)
MAX_LIMIT == 100000

Chunk(kind, body) == [kind |-> kind, body |-> body]

\* the chunks one page yields when `first` is set anew for every page
EmitRowsMut(isFirst, ds) ==
    LET piece(i) ==
            (IF i = 1 THEN <<>> ELSE <<Chunk("comma", <<>>)>>) \o <<Chunk("row", ds[i])>>
        RECURSIVE upto(_)
        upto(i) == IF i = 0 THEN <<>> ELSE upto(i - 1) \o piece(i)
    IN  upto(Len(ds))

\* the chunks one page yields: b"," before every row but the first of the export
EmitRows(isFirst, ds) ==
    LET piece(i) ==
            (IF isFirst /\ i = 1 THEN <<>> ELSE <<Chunk("comma", <<>>)>>)
            \o <<Chunk("row", ds[i])>>
        RECURSIVE upto(_)
        upto(i) == IF i = 0 THEN <<>> ELSE upto(i - 1) \o piece(i)
    IN  upto(Len(ds))

ToDicts(rows) == [i \in 1..Len(rows) |-> _row_to_dict(rows[i])]

\* the break condition without the page cap
WholeStopNoCap(total, off, pgs, max_pages) == total # NoCount /\ off >= total

\* the break condition after a non-empty page, whole-range mode
WholeStop(total, off, pgs, max_pages) ==
    (total # NoCount /\ off >= total) \/ pgs >= max_pages

PartialReasonMut(pgs, max_pages, total, off) ==
    IF pgs >= max_pages THEN "max_pages"
    ELSE IF total # NoCount /\ off <= total THEN "ga4_limit"
    ELSE None

\* the row-count test made before the page-cap test
PartialReasonLimitFirst(pgs, max_pages, total, off) ==
    IF total # NoCount /\ off < total THEN "ga4_limit"
    ELSE IF pgs >= max_pages THEN "max_pages"
    ELSE None

\* partial / reason of the whole-range trailer; None when partial is False
PartialReason(pgs, max_pages, total, off) ==
    IF pgs >= max_pages THEN "max_pages"
    ELSE IF total # NoCount /\ off < total THEN "ga4_limit"
    ELSE None

\* body_tail / tail
BodyTail(rowCount, s_iso, e_iso, pgs, reason, totals, agg) ==
    LET partial == reason # None
        audit == [detail_totals |-> totals,
                  ga4_aggregate |-> agg,
                  diff_pct |-> [m \in DOMAIN totals |-> _pct_diff(totals[m], agg[m])],
                  rowCount |-> rowCount, pages |-> pgs, partial |-> partial,
                  reason |-> reason]
    IN  [rowCount |-> rowCount, start |-> s_iso, end |-> e_iso, pages |-> pgs,
         partial |-> partial, audit |-> audit, reason |-> reason,
         has_reason |-> reason # None]

NextMonth(d) == <<d[1] + (d[2] \div 12), (d[2] % 12) + 1, 1>>

RECURSIVE MonthsFrom(_, _)
MonthsFrom(cur, end) ==
    IF DateLe(cur, end) THEN <<cur>> \o MonthsFrom(NextMonth(cur), end) ELSE <<>>

_month_range_iter(start, end) == MonthsFrom(<<start[1], start[2], 1>>, end)

\* the month m0 within [s, e] without `if m_end > e: m_end = e`
MonthChunkMut(m0, s, e) ==
    [start |-> IF DateLt(m0, s) THEN s ELSE m0, end |-> PrevDay(NextMonth(m0))]

\* m_start, m_end of the month m0 within [s, e]
MonthChunk(m0, s, e) ==
    LET last == PrevDay(NextMonth(m0))
    IN  [start |-> IF DateLt(m0, s) THEN s ELSE m0,
         end |-> IF DateLt(e, last) THEN e ELSE last]

\* `if m_start > m_end: continue`
RECURSIVE SkipEmpty(_, _, _)
SkipEmpty(ms, s, e) ==
    IF ms = <<>> THEN ms
    ELSE IF DateLt(MonthChunk(Head(ms), s, e).end, MonthChunk(Head(ms), s, e).start)
    THEN SkipEmpty(Tail(ms), s, e)
    ELSE ms

\* the sub-ranges the `for m0 in months` loop queries, in order
RECURSIVE MonthRanges(_, _, _)
MonthRanges(ms, s, e) ==
    LET rest == SkipEmpty(ms, s, e)
    IN  IF rest = <<>> THEN <<>>
        ELSE <<MonthChunk(Head(rest), s, e)>> \o MonthRanges(Tail(rest), s, e)

ReportRequest(start, end, page_size) ==
    [start |-> start, end |-> end, limit |-> Min2(page_size, MAX_LIMIT),
     offset |-> 0, page_token |-> NoToken]

NoRequest == ReportRequest(MIN_START_DATE, MIN_START_DATE, 0)

MonthRequest(ms, s, e, page_size) ==
    ReportRequest(MonthChunk(Head(ms), s, e).start, MonthChunk(Head(ms), s, e).end, page_size)

NoParams ==
    [s_iso |-> MIN_START_DATE, e_iso |-> MIN_START_DATE, page_size |-> 0,
     max_pages |-> 0, rid |-> "none"]

(***************************************************************************)
(* Inputs.                                                                 *)
(***************************************************************************)
Todays == {<<2024, 3, 11>>}

FromStrings == {<<2023, 12, 15>>, <<2024, 1, 15>>, <<2024, 13, 1>>}

ToStrings == {<<2024, 1, 31>>, <<2024, 3, 10>>, <<2023, 12, 31>>}

HintKinds == {"exact", "stale", "none"}

(***************************************************************************)
(* The export endpoints.                                                   *)
(***************************************************************************)
NoAggCall == [called |-> FALSE]

NoRow == [called |-> FALSE]

NoSplit == [computed |-> FALSE]

NoPeer == [pc |-> "off"]

\* _ga4_client without a readable key file raises HTTPException(500)
CredentialsNotFound == [ok |-> FALSE, status |-> 500, detail |-> "GA4 credentials not found"]

\* the first statements of both handlers, with credentials loaded before the dates are read
HandlerEntryMut(start, end, day, creds) ==
    IF ~creds THEN [res |-> CredentialsNotFound, client |-> "missing"]
    ELSE [res |-> _clamp_dates(start, end, day), client |-> "loaded"]

\* the first statements of both handlers: _clamp_dates, then _ga4_client
HandlerEntry(start, end, day, creds) ==
    LET c == _clamp_dates(start, end, day)
    IN  IF ~c.ok THEN [res |-> c, client |-> "none"]
        ELSE IF ~creds THEN [res |-> CredentialsNotFound, client |-> "missing"]
        ELSE [res |-> c, client |-> "loaded"]

GA4_TIMEOUT_SECONDS == 60

\* client.run_report(req) without a timeout argument
NoTimeout == 0

NoCalls == [page |-> 0, ok |-> 0, agg |-> 0, last |-> [kind |-> "none"]]

\* client.run_report(req, timeout=GA4_TIMEOUT_SECONDS) of _run_report, sent after
\* `delivered` chunks were yielded
PageCall(rq, delivered) ==
    [kind |-> "page", start |-> rq.start, end |-> rq.end, dimensions |-> _dims,
     timeout |-> GA4_TIMEOUT_SECONDS, delivered |-> delivered]

\* client.run_report(req) of _agg_totals
AggCall(rq, delivered) ==
    [kind |-> "agg", start |-> rq.start, end |-> rq.end, dimensions |-> rq.dimensions,
     timeout |-> NoTimeout, delivered |-> delivered]

Sent(w, call) ==
    [page |-> w.page + (IF call.kind = "page" THEN 1 ELSE 0),
     ok |-> w.ok,
     agg |-> w.agg + (IF call.kind = "agg" THEN 1 ELSE 0),
     last |-> call]

\* the call sent last has returned a response
Returned(w) == [w EXCEPT !.ok = @ + 1]

NoClamp == [start |-> <<>>, end |-> <<>>, day |-> <<>>, called |-> FALSE, res |-> [ok |-> FALSE]]

NoBackoff == [attempt |-> 0, jitter |-> 0, retry_after |-> NoHeader, computed |-> FALSE, sleep |-> 0]

Init ==
    /\ clamp = NoClamp
    /\ backoff = NoBackoff
    /\ rowconv = NoRow
    /\ aggcall = NoAggCall
    /\ monthsplit = NoSplit
    /\ active = 1
    /\ peer = NoPeer
    /\ today \in Todays
    /\ \E na \in 0..MaxRows : \E nb \in 0..(MaxRows - na) : held = HeldRows(na, nb)
    /\ hintKind \in HintKinds
    /\ tokens \in BOOLEAN
    /\ credsOk \in BOOLEAN
    /\ withheld = FALSE
    /\ failures = 0
    /\ pc = "idle"
    /\ mode = "none"
    /\ params = NoParams
    /\ status = 0
    /\ out = <<>>
    /\ req = NoRequest
    /\ pages = 0
    /\ total_rows_reported = NoCount
    /\ sums = ZeroTotals
    /\ first = TRUE
    /\ page_token = NoToken
    /\ offset = 0
    /\ months = <<>>
    /\ rr = IdleRun
    /\ client = "none"
    /\ wire = NoCalls

\* the handler up to `return StreamingResponse(...)`; the response starts with status 200
Accept(m, c, page_size, max_pages, rid) ==
    /\ mode' = m
    /\ params' = [s_iso |-> c.start, e_iso |-> c.end, page_size |-> page_size,
                  max_pages |-> max_pages, rid |-> rid]
    /\ status' = 200
    /\ pc' = "open"
    /\ UNCHANGED <<out, genVars, rr>>

\* HTTPException raised by the handler: http_exception_handler answers
Reject(m, c) ==
    /\ mode' = m
    /\ status' = c.status
    /\ pc' = "rejected"
    /\ UNCHANGED <<params, out, genVars, rr>>

exportar_datos(start, end, page_size, max_pages) ==
    /\ pc = "idle"
    /\ LET h == HandlerEntry(start, end, today, credsOk)
       IN  /\ client' = h.client
           /\ IF h.res.ok THEN Accept("whole", h.res, page_size, max_pages, "rid-1")
              ELSE Reject("whole", h.res)
    /\ UNCHANGED <<fnVars, peerVars, envVars, withheld, failures, wire>>

exportar_mensual(start, end, page_size) ==
    /\ pc = "idle"
    /\ LET h == HandlerEntry(start, end, today, credsOk)
       IN  /\ client' = h.client
           /\ IF h.res.ok THEN Accept("monthly", h.res, page_size, 0, "rid-1")
              ELSE Reject("monthly", h.res)
    /\ UNCHANGED <<fnVars, peerVars, envVars, withheld, failures, wire>>

\* yield b'{"rows":[' and the first request of the export
GenOpen ==
    /\ pc = "open"
    /\ out' = Append(out, Chunk("open", <<>>))
    /\ IF mode = "whole"
       THEN /\ req' = ReportRequest(params.s_iso, params.e_iso, params.page_size)
            /\ months' = <<>>
            /\ pc' = "fetch"
            /\ rr' = StartRun
       ELSE LET ms == SkipEmpty(_month_range_iter(params.s_iso, params.e_iso),
                                params.s_iso, params.e_iso)
            IN  /\ months' = ms
                /\ IF ms = <<>>
                   THEN pc' = "tail" /\ rr' = IdleRun /\ req' = req
                   ELSE /\ pc' = "fetch"
                        /\ rr' = StartRun
                        /\ req' = MonthRequest(ms, params.s_iso, params.e_iso, params.page_size)
    /\ UNCHANGED <<fnVars, peerVars, envVars, withheld, failures, mode, params, status,
                   pages, total_rows_reported, sums, first, page_token, offset, client, wire>>

\* the exception handler cannot answer once the response has started
unhandled_exception_handler(sent) == IF sent = 0 THEN 500 ELSE sent

\* an attempt of _run_report whose remote call returns a response
AttemptOk(serve) ==
    /\ pc = "fetch"
    /\ rr.state = "running"
    /\ rr' = _run_report(rr, Success(RemoteResponse(held, hintKind, tokens, req, serve)),
                         params.rid)
    /\ withheld' = (withheld \/ (~serve /\ HonestPage(held, req) # <<>>))
    /\ wire' = Returned(Sent(wire, PageCall(req, Len(out))))
    /\ UNCHANGED <<fnVars, peerVars, envVars, failures, pc, mode, params, status, out, genVars,
                   client>>

\* an attempt of _run_report whose remote call fails; the last one raises into _gen
AttemptFail(f) ==
    /\ pc = "fetch"
    /\ rr.state = "running"
    /\ failures < MaxFailures
    /\ failures' = failures + 1
    /\ rr' = _run_report(rr, f, params.rid)
    /\ IF rr'.state = "raised"
       THEN pc' = "failed" /\ status' = unhandled_exception_handler(status)
       ELSE UNCHANGED <<pc, status>>
    /\ wire' = Sent(wire, PageCall(req, Len(out)))
    /\ UNCHANGED <<fnVars, peerVars, envVars, withheld, mode, params, out, genVars, client>>

\* the body of the `while True` loop of exportar_datos._gen after the fetch
ConsumePageWhole ==
    /\ pc = "fetch"
    /\ mode = "whole"
    /\ rr.state = "returned"
    /\ LET resp == rr.resp
           total == IF total_rows_reported = NoCount THEN resp.row_count
                    ELSE total_rows_reported
           ds == ToDicts(resp.rows)
           batch_count == Len(ds)
           tok == resp.next_page_token
           off == IF tok # NoToken THEN 0 ELSE offset + batch_count
       IN  /\ total_rows_reported' = total
           /\ sums' = AddRows(sums, ds)
           /\ out' = out \o EmitRows(first, ds)
           /\ first' = (first /\ batch_count = 0)
           /\ IF batch_count = 0
              THEN /\ pc' = "tail"
                   /\ rr' = IdleRun
                   /\ UNCHANGED <<req, pages, page_token, offset>>
              ELSE /\ pages' = pages + 1
                   /\ page_token' = tok
                   /\ offset' = off
                   /\ IF WholeStop(total, off, pages + 1, params.max_pages)
                      THEN pc' = "tail" /\ rr' = IdleRun /\ req' = req
                      ELSE /\ pc' = "fetch"
                           /\ rr' = StartRun
                           /\ req' = [req EXCEPT !.page_token = tok, !.offset = off]
    /\ UNCHANGED <<fnVars, peerVars, envVars, withheld, failures, mode, params, status, months,
                   client, wire>>

\* `if total_month is not None and req.offset + batch_count >= total_month`
MonthDone(total_month, off, batch_count) ==
    total_month # NoCount /\ off + batch_count >= total_month

\* the body of the `while True` loop of exportar_mensual._gen after the fetch
ConsumePageMonthly ==
    /\ pc = "fetch"
    /\ mode = "monthly"
    /\ rr.state = "returned"
    /\ LET resp == rr.resp
           ds == ToDicts(resp.rows)
           batch_count == Len(ds)
           rest == SkipEmpty(Tail(months), params.s_iso, params.e_iso)
           leave == batch_count = 0 \/ MonthDone(resp.row_count, req.offset, batch_count)
       IN  /\ sums' = AddRows(sums, ds)
           /\ out' = out \o EmitRows(first, ds)
           /\ first' = (first /\ batch_count = 0)
           /\ pages' = IF batch_count = 0 THEN pages ELSE pages + 1
           /\ IF ~leave
              THEN /\ req' = [req EXCEPT !.offset = @ + batch_count]
                   /\ months' = months
                   /\ pc' = "fetch"
                   /\ rr' = StartRun
              ELSE /\ months' = rest
                   /\ IF rest = <<>>
                      THEN /\ pc' = "tail"
                           /\ rr' = IdleRun
                           /\ req' = [req EXCEPT !.offset = @ + batch_count]
                      ELSE /\ pc' = "fetch"
                           /\ rr' = StartRun
                           /\ req' = MonthRequest(rest, params.s_iso, params.e_iso,
                                                  params.page_size)
    /\ UNCHANGED <<fnVars, peerVars, envVars, withheld, failures, mode, params, status,
                   total_rows_reported, page_token, offset, client, wire>>

\* yield b"],", the aggregate query answered, the trailer and b"}"
EmitTrailer(kind) ==
    /\ pc = "tail"
    /\ LET agg == _agg_totals(
                    RemoteAggregate(held, AggRequest(params.s_iso, params.e_iso), kind))
           body == IF mode = "whole"
                   THEN BodyTail(total_rows_reported, params.s_iso, params.e_iso, pages,
                                 PartialReason(pages, params.max_pages,
                                               total_rows_reported, offset),
                                 sums, agg)
                   ELSE BodyTail(NoCount, params.s_iso, params.e_iso, pages, None, sums, agg)
       IN  out' = out \o <<Chunk("close_rows", <<>>), Chunk("tail", body), Chunk("close", <<>>)>>
    /\ pc' = "done"
    /\ wire' = Sent(wire, AggCall(AggRequest(params.s_iso, params.e_iso), Len(out) + 1))
    /\ UNCHANGED <<fnVars, peerVars, envVars, withheld, failures, mode, params, status,
                   genVars, rr, client>>

\* yield b"],", then client.run_report of _agg_totals raises into _gen
AggregateFails ==
    /\ pc = "tail"
    /\ failures < MaxFailures
    /\ failures' = failures + 1
    /\ out' = Append(out, Chunk("close_rows", <<>>))
    /\ pc' = "failed"
    /\ status' = unhandled_exception_handler(status)
    /\ wire' = Sent(wire, AggCall(AggRequest(params.s_iso, params.e_iso), Len(out) + 1))
    /\ UNCHANGED <<fnVars, peerVars, envVars, withheld, mode, params, genVars, rr, client>>

\* Page sizes and page caps are drawn small, so that a source of a few rows spans
\* several pages and reaches the cap.
Next ==
    \/ \E s \in FromStrings, e \in ToStrings, ps \in 1..MaxPageSize, mp \in 1..MaxPages :
          exportar_datos(s, e, ps, mp)
    \/ \E s \in FromStrings, e \in ToStrings, ps \in 1..MaxPageSize :
          exportar_mensual(s, e, ps)
    \/ GenOpen
    \/ \E serve \in BOOLEAN : AttemptOk(serve)
    \/ \E f \in Failures : AttemptFail(f)
    \/ ConsumePageWhole
    \/ ConsumePageMonthly
    \/ \E kind \in AggKinds : EmitTrailer(kind)
    \/ AggregateFails

Spec == Init /\ [][Next]_vars

(***************************************************************************)
(* _clamp_dates and the backoff as functions of their inputs: each is      *)
(* applied once to inputs drawn at the start.                              *)
(***************************************************************************)
QuietExport ==
    /\ active = 1
    /\ peer = NoPeer
    /\ today \in Todays
    /\ held = <<>>
    /\ hintKind = "exact"
    /\ tokens = FALSE
    /\ credsOk = TRUE
    /\ withheld = FALSE
    /\ failures = 0
    /\ pc = "off"
    /\ mode = "none"
    /\ params = NoParams
    /\ status = 0
    /\ out = <<>>
    /\ req = NoRequest
    /\ pages = 0
    /\ total_rows_reported = NoCount
    /\ sums = ZeroTotals
    /\ first = TRUE
    /\ page_token = NoToken
    /\ offset = 0
    /\ months = <<>>
    /\ rr = IdleRun
    /\ client = "none"
    /\ wire = NoCalls

ClampStrings ==
    {<<2023, 6, 30>>, <<2023, 12, 31>>, <<2024, 1, 1>>, <<2024, 1, 2>>, <<2024, 2, 29>>,
     <<2024, 3, 1>>, <<2024, 3, 10>>, <<2024, 3, 11>>, <<2025, 1, 1>>,
     <<2024, 2, 30>>, <<2024, 13, 1>>, <<2024, 1>>}

ClampDays ==
    {<<2024, 1, 1>>, <<2024, 1, 2>>, <<2024, 3, 1>>, <<2024, 3, 11>>, <<2025, 1, 1>>}

InitClamp ==
    /\ clamp \in {[start |-> s, end |-> e, day |-> d, called |-> FALSE, res |-> [ok |-> FALSE]] :
                    s \in ClampStrings, e \in ClampStrings, d \in ClampDays}
    /\ backoff = NoBackoff
    /\ rowconv = NoRow
    /\ aggcall = NoAggCall
    /\ monthsplit = NoSplit
    /\ QuietExport

ClampCall ==
    /\ ~clamp.called
    /\ clamp' = [clamp EXCEPT !.called = TRUE,
                              !.res = _clamp_dates(clamp.start, clamp.end, clamp.day)]
    /\ UNCHANGED <<backoff, aggcall, monthsplit, rowconv, peerVars, envVars, exportVars>>

SpecClamp == InitClamp /\ [][ClampCall]_vars

MaxAttempt == 8

Jitters == {0, 1, 500, 999}

Headers ==
    {NoHeader, HeaderText("empty", 0), HeaderText("text", 0), HeaderText("number", 0),
     HeaderText("number", 1500), HeaderText("number", 5000), HeaderText("number", 120000)}

InitBackoff ==
    /\ backoff \in {[attempt |-> n, jitter |-> j, retry_after |-> h, computed |-> FALSE,
                     sleep |-> 0] : n \in 1..MaxAttempt, j \in Jitters, h \in Headers}
    /\ clamp = NoClamp
    /\ rowconv = NoRow
    /\ aggcall = NoAggCall
    /\ monthsplit = NoSplit
    /\ QuietExport

BackoffCompute ==
    /\ ~backoff.computed
    /\ backoff' = [backoff EXCEPT
            !.computed = TRUE,
            !.sleep = RetrySleep(backoff.attempt, backoff.jitter, backoff.retry_after)]
    /\ UNCHANGED <<clamp, aggcall, monthsplit, rowconv, peerVars, envVars, exportVars>>

SpecBackoff == InitBackoff /\ [][BackoffCompute]_vars

(***************************************************************************)
(* _agg_totals as a function of its arguments: called once, either as     *)
(* tests/test_agg_totals.py calls it, with the client and the detail       *)
(* request, or as the exports call it, with the client and the two dates.  *)
(***************************************************************************)
ClientArg == [t |-> "client"]

RequestArg(rq) == [t |-> "request", request |-> rq]

StrArg(s) == [t |-> "str", v |-> s]

\* the detail RunReportRequest of the test, over a range and with or without a filter
DetailRequest(start, end, filter) ==
    [start |-> start, end |-> end, dimensions |-> <<"city">>, dimension_filter |-> filter,
     metrics |-> <<"sessions", "activeUsers">>]

DetailRanges ==
    {<<(<<2024, 1, 1>>), (<<2024, 1, 31>>)>>, <<(<<2024, 1, 15>>), (<<2024, 3, 10>>)>>}

DetailFilters == {NoFilter, "city=London"}

\* a call of _agg_totals with positional arguments: Python binds them to
\* (client, start_iso, end_iso) and raises TypeError when one is missing
call_agg_totals(args, rows, kind) ==
    IF Len(args) # 3
    THEN [raised |-> "TypeError", sent |-> [kind |-> "none"], result |-> ZeroTotals]
    ELSE LET rq == AggRequest(args[2].v, args[3].v)
         IN  [raised |-> "none", sent |-> rq,
              result |-> _agg_totals(RemoteAggregate(rows, rq, kind))]

InitAgg ==
    /\ aggcall \in
          {[called |-> FALSE, detail |-> DetailRequest(r[1], r[2], f), form |-> fm,
            rows |-> HeldRows(na, MaxRows - na), kind |-> k] :
               r \in DetailRanges, f \in DetailFilters, fm \in {"detail", "range"},
               na \in 0..MaxRows, k \in AggKinds}
    /\ clamp = NoClamp
    /\ backoff = NoBackoff
    /\ rowconv = NoRow
    /\ monthsplit = NoSplit
    /\ QuietExport

AggTotalsCall ==
    /\ ~aggcall.called
    /\ LET d == aggcall.detail
           args == IF aggcall.form = "detail" THEN <<ClientArg, RequestArg(d)>>
                   ELSE <<ClientArg, StrArg(d.start), StrArg(d.end)>>
       IN  aggcall' = [called |-> TRUE, detail |-> d, form |-> aggcall.form,
                       rows |-> aggcall.rows, kind |-> aggcall.kind,
                       outcome |-> call_agg_totals(args, aggcall.rows, aggcall.kind)]
    /\ UNCHANGED <<clamp, backoff, monthsplit, rowconv, peerVars, envVars, exportVars>>

SpecAgg == InitAgg /\ [][AggTotalsCall]_vars

(***************************************************************************)
(* The monthly split as a function of the clamped range.                   *)
(***************************************************************************)
SplitDates ==
    {<<2024, 1, 1>>, <<2024, 1, 15>>, <<2024, 1, 31>>, <<2024, 2, 1>>, <<2024, 2, 29>>,
     <<2024, 3, 1>>, <<2024, 3, 10>>, <<2024, 12, 1>>, <<2024, 12, 31>>, <<2025, 1, 1>>,
     <<2025, 2, 28>>, <<2025, 3, 31>>}

InitSplit ==
    /\ monthsplit \in {[computed |-> FALSE, s |-> s, e |-> e, chunks |-> <<>>] :
                          s \in SplitDates, e \in SplitDates}
    /\ DateLe(monthsplit.s, monthsplit.e)
    /\ clamp = NoClamp
    /\ backoff = NoBackoff
    /\ rowconv = NoRow
    /\ aggcall = NoAggCall
    /\ QuietExport

SplitCompute ==
    /\ ~monthsplit.computed
    /\ monthsplit' = [monthsplit EXCEPT
            !.computed = TRUE,
            !.chunks = MonthRanges(_month_range_iter(monthsplit.s, monthsplit.e),
                                   monthsplit.s, monthsplit.e)]
    /\ UNCHANGED <<clamp, backoff, aggcall, rowconv, peerVars, envVars, exportVars>>

SpecSplit == InitSplit /\ [][SplitCompute]_vars

(***************************************************************************)
(* Two exports of concurrent requests.  The export variables hold the      *)
(* export whose step is being taken; the other one is suspended in `peer`. *)
(* Switch hands the processor to the other export at any point.            *)
(***************************************************************************)
\* the running totals kept at module level
SharedMut == {"sums"}

\* the names the generators would share if they were module-level: the code has none,
\* req, pages, total_rows_reported and the sums are locals of the handler call and
\* first, page_token and offset are locals of its generator
Shared == {}

\* the value a name has for the export that resumes
Resume(name, current, saved) == IF name \in Shared THEN current ELSE saved

Snapshot ==
    [withheld |-> withheld, failures |-> failures, pc |-> pc, mode |-> mode,
     params |-> params, status |-> status, out |-> out, req |-> req, pages |-> pages,
     total_rows_reported |-> total_rows_reported, sums |-> sums, first |-> first,
     page_token |-> page_token, offset |-> offset, months |-> months, rr |-> rr,
     client |-> client, wire |-> wire]

\* a request that has arrived and whose handler has not run yet
IdleSnapshot ==
    [withheld |-> FALSE, failures |-> 0, pc |-> "idle", mode |-> "none",
     params |-> NoParams, status |-> 0, out |-> <<>>, req |-> NoRequest, pages |-> 0,
     total_rows_reported |-> NoCount, sums |-> ZeroTotals, first |-> TRUE,
     page_token |-> NoToken, offset |-> 0, months |-> <<>>, rr |-> IdleRun,
     client |-> "none", wire |-> NoCalls]

InitTwo ==
    /\ clamp = NoClamp
    /\ backoff = NoBackoff
    /\ rowconv = NoRow
    /\ aggcall = NoAggCall
    /\ monthsplit = NoSplit
    /\ active = 1
    /\ peer = IdleSnapshot
    /\ today \in Todays
    /\ held \in {HeldRows(2, 0), HeldRows(1, 1)}
    /\ hintKind = "exact"
    /\ tokens \in BOOLEAN
    /\ credsOk = TRUE
    /\ withheld = FALSE
    /\ failures = 0
    /\ pc = "idle"
    /\ mode = "none"
    /\ params = NoParams
    /\ status = 0
    /\ out = <<>>
    /\ req = NoRequest
    /\ pages = 0
    /\ total_rows_reported = NoCount
    /\ sums = ZeroTotals
    /\ first = TRUE
    /\ page_token = NoToken
    /\ offset = 0
    /\ months = <<>>
    /\ rr = IdleRun
    /\ client = "none"
    /\ wire = NoCalls

\* the running export is suspended and the other one resumes
Switch ==
    /\ active' = 3 - active
    /\ peer' = Snapshot
    /\ withheld' = peer.withheld
    /\ failures' = peer.failures
    /\ pc' = peer.pc
    /\ mode' = peer.mode
    /\ params' = peer.params
    /\ status' = peer.status
    /\ out' = peer.out
    /\ rr' = peer.rr
    /\ client' = peer.client
    /\ wire' = peer.wire
    /\ req' = Resume("req", req, peer.req)
    /\ pages' = Resume("pages", pages, peer.pages)
    /\ total_rows_reported' =
          Resume("total_rows_reported", total_rows_reported, peer.total_rows_reported)
    /\ sums' = Resume("sums", sums, peer.sums)
    /\ first' = Resume("first", first, peer.first)
    /\ page_token' = Resume("page_token", page_token, peer.page_token)
    /\ offset' = Resume("offset", offset, peer.offset)
    /\ months' = Resume("months", months, peer.months)
    /\ UNCHANGED <<fnVars, envVars>>

NextTwo ==
    \/ \E ps \in {1, MaxPageSize} :
          exportar_datos(<<2024, 1, 15>>, <<2024, 3, 10>>, ps, MaxPages)
    \/ exportar_mensual(<<2024, 1, 15>>, <<2024, 3, 10>>, 1)
    \/ GenOpen
    \/ AttemptOk(TRUE)
    \/ failures = 0 /\ AttemptFail(Failure("ServiceUnavailable", 503, NoHeader, 0))
    \/ ConsumePageWhole
    \/ ConsumePageMonthly
    \/ \E kind \in {"true", "skewed"} : EmitTrailer(kind)
    \/ failures = 0 /\ AggregateFails
    \/ Switch

SpecTwo == InitTwo /\ [][NextTwo]_vars

(***************************************************************************)
(* The whole-range export against a source that may answer a page request  *)
(* with any rows, any row count and any continuation token.  The generator *)
(* keeps being run and every remote call returns or fails, so a step that  *)
(* is possible is eventually taken.                                        *)
(***************************************************************************)
\* an answer that does not depend on the request: the rows from position p on, up to
\* the limit, with row count cnt and continuation token tok
AnyResponse(rows, rq, p, tok, cnt) ==
    LET all == RowsInRange(rows, rq.start, rq.end)
        upto == Min2(Len(all), p + rq.limit)
    IN  [rows |-> IF p < upto THEN SubSeq(all, p + 1, upto) ELSE <<>>,
         row_count |-> cnt,
         next_page_token |-> tok]

\* an attempt of _run_report whose remote call returns such an answer
AttemptAny(p, tok, cnt) ==
    /\ pc = "fetch"
    /\ rr.state = "running"
    /\ rr' = _run_report(rr, Success(AnyResponse(held, req, p, tok, cnt)), params.rid)
    /\ withheld' = TRUE
    /\ wire' = Returned(Sent(wire, PageCall(req, Len(out))))
    /\ UNCHANGED <<fnVars, peerVars, envVars, failures, pc, mode, params, status, out, genVars,
                   client>>

InitLive == Init /\ credsOk /\ hintKind = "exact" /\ held = HeldRows(2, 0)

NextLive ==
    \/ \E mp \in 1..MaxPages : exportar_datos(<<2024, 1, 15>>, <<2024, 3, 10>>, 1, mp)
    \/ GenOpen
    \/ AttemptOk(TRUE)
    \/ \E p \in 0..1, tok \in {NoToken, 1}, cnt \in {NoCount, MaxRows + 1} :
          AttemptAny(p, tok, cnt)
    \/ AttemptFail(Failure("ServiceUnavailable", 503, NoHeader, 0))
    \/ ConsumePageWhole
    \/ \E kind \in {"true"} : EmitTrailer(kind)
    \/ AggregateFails

\* the generator is advanced, a remote call that can return does so unless it fails, and
\* a page that has arrived is consumed
SpecLive ==
    /\ InitLive
    /\ [][NextLive]_vars
    /\ WF_vars(GenOpen)
    /\ WF_vars(AttemptOk(TRUE))
    /\ WF_vars(ConsumePageWhole)

(***************************************************************************)
(* _row_to_dict as a function of the row: applied once to a row whose      *)
(* first three metric values are numbers, empty, absent or other text.     *)
(***************************************************************************)
MetricTexts == {NumText(7), EmptyText, NoValue, BadText}

RowWith(a, b, c) ==
    [dimension_values |-> <<RowDateA, "MX", "CDMX", "mobile", "/", "google", "organic",
                            "(none)">>,
     metric_values |-> <<a, b, c, NumText(7), NumText(1), NumText(0), NumText(30),
                         NumText(1), NumText(3)>>]

InitRow ==
    /\ rowconv \in {[called |-> FALSE, row |-> RowWith(a, b, c)] :
                       a \in MetricTexts, b \in MetricTexts, c \in MetricTexts}
    /\ clamp = NoClamp
    /\ backoff = NoBackoff
    /\ aggcall = NoAggCall
    /\ monthsplit = NoSplit
    /\ QuietExport

RowConvert ==
    /\ ~rowconv.called
    /\ rowconv' = [called |-> TRUE, row |-> rowconv.row,
                   outcome |-> call_row_to_dict(rowconv.row)]
    /\ UNCHANGED <<clamp, backoff, aggcall, monthsplit, peerVars, envVars, exportVars>>

SpecRow == InitRow /\ [][RowConvert]_vars

(***************************************************************************)
(* Properties.                                                             *)
(***************************************************************************)
Done == pc = "done"

\* the trailer of a completed export
TailBody == out[Len(out) - 1].body

EmittedRows == SelectSeq(out, LAMBDA c : c.kind = "row")

\* the rows the source holds for the range of the export
RangeRows == RowsInRange(held, params.s_iso, params.e_iso)

CeilDiv(a, b) == (a + b - 1) \div b

\* a source with a truthful row count, offset paging, and no page withheld
TruthfulSource == hintKind = "exact" /\ ~tokens /\ ~withheld

\* C1: the chunks of every completed export, concatenated in order, are one
\* syntactically valid JSON document.
C1_ValidDocument == Done => ValidJSON(Concat(out))

\* C2: whole-range mode, truthful offset-paged source holding N rows, page cap larger
\* than the pages needed: N rows are emitted, pages is the number of non-empty pages,
\* partial is false and there is no reason.
C2_ManyPagesNoPartial ==
    (/\ Done
     /\ mode = "whole"
     /\ TruthfulSource
     /\ params.max_pages > CeilDiv(Len(RangeRows), params.page_size))
    => /\ Len(EmittedRows) = Len(RangeRows)
       /\ TailBody.pages = CeilDiv(Len(RangeRows), params.page_size)
       /\ TailBody.partial = FALSE
       /\ ~TailBody.has_reason

C2_Witness ==
    /\ Done
    /\ mode = "whole"
    /\ TruthfulSource
    /\ Len(RangeRows) = 3
    /\ params.page_size = 2
    /\ params.max_pages = 3
    /\ TailBody.pages = 2

\* C3: whole-range mode, the page cap and the reported total coincide (the offset
\* reaches the total on the page on which the page counter reaches the cap): all rows
\* are emitted, pages is the cap, and partial is false.
C3_CapEqualsTotal ==
    (/\ Done
     /\ mode = "whole"
     /\ TruthfulSource
     /\ Len(RangeRows) > 0
     /\ params.max_pages = CeilDiv(Len(RangeRows), params.page_size))
    => /\ Len(EmittedRows) = Len(RangeRows)
       /\ TailBody.pages = params.max_pages
       /\ TailBody.partial = FALSE

\* C4: a completed export that emitted fewer rows than the source holds for the range
\* has partial=true and a reason in its trailer (stated for a source whose row count
\* is truthful, the case the claim names).
C4_NoSilentDrop ==
    (Done /\ hintKind = "exact" /\ Len(EmittedRows) < Len(RangeRows))
    => TailBody.partial = TRUE /\ TailBody.has_reason

AllFailed(h, n) == \A i \in 1..n : ~h[i].ok

\* C5: one call of _run_report makes at most GA4_MAX_RETRIES remote calls; it returns
\* the response of the first call that succeeds, making no call after it; it raises
\* only after GA4_MAX_RETRIES failed calls, and then the failure of the last one; it
\* never returns without a response.
C5_RetryContract ==
    /\ rr.calls <= GA4_MAX_RETRIES
    /\ rr.calls = Len(rr.history)
    /\ rr.state = "running" => AllFailed(rr.history, rr.calls)
    /\ rr.state = "returned" =>
          /\ rr.calls >= 1
          /\ rr.history[rr.calls].ok
          /\ rr.resp = rr.history[rr.calls].resp
          /\ AllFailed(rr.history, rr.calls - 1)
    /\ rr.state = "raised" =>
          /\ rr.calls = GA4_MAX_RETRIES
          /\ AllFailed(rr.history, rr.calls)
          /\ rr.error = rr.history[rr.calls].exc

C5_Witness ==
    /\ rr.state = "raised"
    /\ rr.history[1].exc = "ResourceExhausted"
    /\ rr.error = "ServiceUnavailable"

\* C6: the sleep s computed for failed attempt n without a Retry-After header satisfies
\* min(2^(n-1), 60) <= s <= 60 and s < 2^(n-1) + 1 (seconds); with a header that is
\* the text of h seconds, s >= h.
C6_BackoffBound ==
    backoff.computed =>
        LET n == backoff.attempt
            s == backoff.sleep
            h == backoff.retry_after
        IN  /\ h.kind = "absent" =>
                  /\ (IF 2 ^ (n - 1) < 60 THEN 2 ^ (n - 1) ELSE 60) * 1000 <= s
                  /\ s <= 60 * 1000
                  /\ s < (2 ^ (n - 1) + 1) * 1000
            /\ h.kind = "number" => s >= h.ms

C6_Witness ==
    /\ backoff.computed
    /\ backoff.attempt = 7
    /\ backoff.retry_after.kind = "absent"
    /\ backoff.sleep = 60000

\* C7: for well-formed date strings _clamp_dates returns start = max(requested start,
\* 2024-01-01) and end = min(requested end, today - 1 day) with start <= end, or raises
\* the range error (400) exactly when that start is after that end.
C7_ClampContract ==
    (clamp.called /\ _parse_date(clamp.start).ok /\ _parse_date(clamp.end).ok) =>
        LET floor == <<2024, 1, 1>>
            yesterday == PrevDay(clamp.day)
            s == IF DateLt(clamp.start, floor) THEN floor ELSE clamp.start
            e == IF DateLt(yesterday, clamp.end) THEN yesterday ELSE clamp.end
        IN  /\ clamp.res.ok <=> ~DateLt(e, s)
            /\ clamp.res.ok =>
                  /\ clamp.res.start = s
                  /\ clamp.res.end = e
                  /\ DateLe(clamp.res.start, clamp.res.end)
                  /\ DateLe(floor, clamp.res.start)
                  /\ DateLe(clamp.res.end, yesterday)
            /\ ~clamp.res.ok =>
                  /\ clamp.res.status = 400
                  /\ clamp.res.detail = "Invalid range after clamp"

C7_Witness ==
    /\ clamp.called
    /\ clamp.start = <<2023, 6, 30>>
    /\ clamp.end = <<2025, 1, 1>>
    /\ clamp.day = <<2024, 3, 1>>
    /\ clamp.res.ok
    /\ clamp.res.start = <<2024, 1, 1>>
    /\ clamp.res.end = <<2024, 2, 29>>

\* the sum of one metric over the emitted rows, a null counting 0
EmittedSum(m) ==
    SumSeq([i \in 1..Len(EmittedRows) |->
        LET x == Get(EmittedRows[i].body, m) IN IF x.null THEN 0 ELSE x.v])

\* C8: in both modes each of the five detail_totals of the trailer is the sum of that
\* metric over exactly the emitted rows, a null metric counting 0 (and the running
\* totals agree with the rows emitted so far at every point of the export).
C8_TotalsMatchRows ==
    \A m \in DOMAIN ZeroTotals :
        /\ sums[m] = EmittedSum(m)
        /\ Done => TailBody.audit.detail_totals[m] = EmittedSum(m)

C8_Witness ==
    /\ Done
    /\ mode = "monthly"
    /\ Len(EmittedRows) = 3
    /\ Get(EmittedRows[2].body, "activeUsers").null
    /\ TailBody.audit.detail_totals["activeUsers"] = 10
    /\ TailBody.audit.detail_totals["sessions"] = 35

\* C9: for each of the five metrics the trailer's diff_pct is 0 when the aggregate is 0
\* and (running total - aggregate) / aggregate otherwise; every completed export has it.
C9_DiffPct ==
    Done =>
        /\ out[Len(out) - 1].kind = "tail"
        /\ \A m \in DOMAIN ZeroTotals :
            LET a == TailBody.audit.ga4_aggregate[m]
                r == TailBody.audit.detail_totals[m]
                d == TailBody.audit.diff_pct[m]
            IN  /\ d.den > 0
                /\ a = 0 => d.num = 0
                /\ a # 0 => d.num * a = (r - a) * d.den

C9_Witness ==
    /\ Done
    /\ TailBody.audit.detail_totals["sessions"] = 35
    /\ TailBody.audit.ga4_aggregate["sessions"] = 40
    /\ TailBody.audit.diff_pct["sessions"] = [num |-> -1, den |-> 8]
    /\ TailBody.audit.diff_pct["conversions"].num # 0

\* C10: when a page fetch fails on every retry attempt, the caller's response is a
\* 500, and no success status and no part of the body was delivered before it.
C10_TerminalFailureIs500 ==
    (pc = "failed" /\ rr.state = "raised") => (status = 500 /\ out = <<>>)

\* a date string is malformed, or the clamped range is empty
BadRange(s, e, day) ==
    \/ ~_parse_date(s).ok
    \/ ~_parse_date(e).ok
    \/ DateLt(DateMin(_parse_date(e).date, PrevDay(day)),
              DateMax(_parse_date(s).date, MIN_START_DATE))

\* C11: in both endpoints a malformed date or a range empty after clamping is answered
\* with a 400 before credentials are loaded; a request answered 400 has sent no remote
\* call, started no retry run and delivered no chunk.
C11_RejectedBeforeAnyWork ==
    /\ \A s \in FromStrings, e \in ToStrings :
          BadRange(s, e, today) =>
              /\ ~HandlerEntry(s, e, today, credsOk).res.ok
              /\ HandlerEntry(s, e, today, credsOk).res.status = 400
              /\ HandlerEntry(s, e, today, credsOk).client = "none"
    /\ (pc = "rejected" /\ status = 400) =>
          /\ client = "none"
          /\ wire = NoCalls
          /\ rr = IdleRun
          /\ failures = 0
          /\ out = <<>>

C11_Witness ==
    pc = "rejected" /\ status = 400 /\ mode = "monthly" /\ credsOk

\* C12: a completed export of either mode has sent exactly one aggregate query; it is
\* the last call the export sent, it was sent after the chunk closing the rows array
\* was yielded, and it asks for the whole effective range with no dimensions.
C12_OneAggregateAfterRows ==
    /\ Done =>
          /\ wire.agg = 1
          /\ wire.last.kind = "agg"
          /\ wire.last.start = params.s_iso
          /\ wire.last.end = params.e_iso
          /\ wire.last.dimensions = <<>>
          /\ wire.last.delivered \in 1..Len(out)
          /\ out[wire.last.delivered].kind = "close_rows"
    /\ wire.agg > 0 => pc \in {"done", "failed"}

C12_Witness ==
    /\ Done
    /\ mode = "monthly"
    /\ params.s_iso = <<2024, 1, 15>>
    /\ params.e_iso = <<2024, 3, 10>>
    /\ wire.page >= 3
    /\ wire.agg = 1

\* C13: a call of _agg_totals for a detail request sends one aggregate request with
\* the detail request's date range and dimension filter and no dimensions, and returns
\* the five metrics of the first row of the answer, zero where the value is empty or
\* the answer has no rows.
C13_AggTotalsOfDetailRequest ==
    aggcall.called =>
        /\ aggcall.outcome.raised = "none"
        /\ aggcall.outcome.sent.start = aggcall.detail.start
        /\ aggcall.outcome.sent.end = aggcall.detail.end
        /\ aggcall.outcome.sent.dimension_filter = aggcall.detail.dimension_filter
        /\ aggcall.outcome.sent.dimensions = <<>>
        /\ \A m \in DOMAIN ZeroTotals :
              aggcall.outcome.result[m] =
                  IF aggcall.kind \in {"blank", "norows"} THEN 0
                  ELSE IF aggcall.kind = "true"
                       THEN RawSum(RowsInRange(aggcall.rows, aggcall.detail.start,
                                               aggcall.detail.end), m)
                       ELSE RawSum(RowsInRange(aggcall.rows, aggcall.detail.start,
                                               aggcall.detail.end), m) + 5

\* C14: for a clamped range [s, e] with s <= e the monthly sub-ranges are non-empty,
\* each within one calendar month, in chronological order and disjoint, the first
\* starts at s, the last ends at e, and each next one starts the day after the previous
\* one ends; 2024-01-15..2024-03-10 gives [01-15,01-31], [02-01,02-29], [03-01,03-10].
C14_MonthlyPartition ==
    monthsplit.computed =>
        LET cs == monthsplit.chunks
            n == Len(cs)
        IN  /\ n >= 1
            /\ cs[1].start = monthsplit.s
            /\ cs[n].end = monthsplit.e
            /\ \A i \in 1..n :
                  /\ DateLe(cs[i].start, cs[i].end)
                  /\ cs[i].start[1] = cs[i].end[1]
                  /\ cs[i].start[2] = cs[i].end[2]
            /\ \A i \in 1..(n - 1) : PrevDay(cs[i + 1].start) = cs[i].end
            /\ \A i \in 1..n : \A j \in (i + 1)..n : DateLt(cs[i].end, cs[j].start)
            /\ (monthsplit.s = <<2024, 1, 15>> /\ monthsplit.e = <<2024, 3, 10>>) =>
                  cs = << [start |-> <<2024, 1, 15>>, end |-> <<2024, 1, 31>>],
                          [start |-> <<2024, 2, 1>>, end |-> <<2024, 2, 29>>],
                          [start |-> <<2024, 3, 1>>, end |-> <<2024, 3, 10>>] >>

C14_Witness ==
    /\ monthsplit.computed
    /\ monthsplit.s = <<2024, 1, 15>>
    /\ monthsplit.e = <<2024, 3, 10>>
    /\ Len(monthsplit.chunks) = 3

RowsOf(chunks) == SelectSeq(chunks, LAMBDA c : c.kind = "row")

SumOfRows(chunks, m) ==
    SumSeq([i \in 1..Len(RowsOf(chunks)) |->
        LET x == Get(RowsOf(chunks)[i].body, m) IN IF x.null THEN 0 ELSE x.v])

\* the trailer of a chunk sequence without the aggregate's answer, which is the remote's
TrailerOf(chunks) ==
    [b \in {"rowCount", "start", "end", "pages", "partial", "reason"} |->
        chunks[Len(chunks) - 1].body[b]]

\* C15: with the steps of two exports interleaved, a step of one export leaves the
\* other's request, page counter, row-count hint, cursor, offset, totals and chunks as
\* they were; an export resumes with what it had when it was suspended; the totals
\* of each export are those of its own rows; and two completed exports of the same
\* request against the same source emitted the same rows and the same trailer.
C15_ExportsIndependent ==
    /\ [][active' = active => peer' = peer]_vars
    /\ [][active' # active =>
            /\ peer' = Snapshot
            /\ req' = peer.req
            /\ pages' = peer.pages
            /\ total_rows_reported' = peer.total_rows_reported
            /\ sums' = peer.sums
            /\ first' = peer.first
            /\ page_token' = peer.page_token
            /\ offset' = peer.offset
            /\ months' = peer.months
            /\ out' = peer.out]_vars
    /\ [](\A m \in DOMAIN ZeroTotals :
            /\ sums[m] = SumOfRows(out, m)
            /\ peer.sums[m] = SumOfRows(peer.out, m))
    /\ []((Done /\ peer.pc = "done" /\ mode = peer.mode /\ params = peer.params) =>
            /\ RowsOf(out) = RowsOf(peer.out)
            /\ TrailerOf(out) = TrailerOf(peer.out)
            /\ TailBody.audit.detail_totals = sums
            /\ peer.out[Len(peer.out) - 1].body.audit.detail_totals = peer.sums)

\* both exports are under way at once, each between two of its pages
C15_Witness ==
    /\ pc = "fetch"
    /\ peer.pc = "fetch"
    /\ pages >= 1
    /\ peer.pages >= 1
    /\ mode # peer.mode
    /\ sums # peer.sums

\* C20: whole-range mode against a source that pages by continuation token and serves
\* every page: a completed export whose page cap is larger than the number of pages
\* the source has for the range has emitted each row of the range exactly once, in the
\* source's order.
C20_TokenPagingExactlyOnce ==
    (/\ Done
     /\ mode = "whole"
     /\ tokens
     /\ ~withheld
     /\ hintKind # "stale"
     /\ params.max_pages > CeilDiv(Len(RangeRows), params.page_size))
    => [i \in 1..Len(EmittedRows) |-> EmittedRows[i].body] = ToDicts(RangeRows)

\* the aggregate a trailer carries is the true sum of the source's rows of the range
TrueAggregate(chunks) ==
    \A m \in DOMAIN ZeroTotals :
        chunks[Len(chunks) - 1].body.audit.ga4_aggregate[m] = RawSum(RangeRows, m)

ZeroDiff(chunks) ==
    \A m \in DOMAIN ZeroTotals : chunks[Len(chunks) - 1].body.audit.diff_pct[m].num = 0

\* C16: two whole-range exports of the same request against the same unchanged source,
\* which serves every page, reports its true row count and answers the aggregate query
\* with the true sums, the page cap being larger than the pages the source has: both
\* emit the same rows in the same order and both trailers have diff_pct 0 for all five
\* metrics.
C16_Idempotent ==
    (/\ Done
     /\ peer.pc = "done"
     /\ mode = "whole"
     /\ peer.mode = "whole"
     /\ params = peer.params
     /\ ~withheld
     /\ ~peer.withheld
     /\ hintKind = "exact"
     /\ params.max_pages > CeilDiv(Len(RangeRows), params.page_size)
     /\ TrueAggregate(out)
     /\ TrueAggregate(peer.out))
    => /\ RowsOf(out) = RowsOf(peer.out)
       /\ ZeroDiff(out)
       /\ ZeroDiff(peer.out)

\* C17: the trailer of a completed whole-range export has partial=true and reason
\* max_pages exactly when the page counter has reached the cap; otherwise partial=true
\* and reason ga4_limit exactly when there is a row-count hint and the final offset is
\* below it; otherwise partial=false and no reason member.  The reason member is
\* present exactly when partial is true.
C17_PartialAndReason ==
    (Done /\ mode = "whole") =>
        LET capped == pages >= params.max_pages
            short == total_rows_reported # NoCount /\ offset < total_rows_reported
        IN  /\ capped =>
                  TailBody.partial /\ TailBody.has_reason /\ TailBody.reason = "max_pages"
            /\ (~capped /\ short) =>
                  TailBody.partial /\ TailBody.has_reason /\ TailBody.reason = "ga4_limit"
            /\ (~capped /\ ~short) => ~TailBody.partial /\ ~TailBody.has_reason
            /\ TailBody.has_reason <=> TailBody.partial

\* the cap is reached while the offset is still below the hint
C17_Witness ==
    /\ Done
    /\ mode = "whole"
    /\ pages >= params.max_pages
    /\ total_rows_reported # NoCount
    /\ offset < total_rows_reported
    /\ TailBody.reason = "max_pages"

Commas == SelectSeq(out, LAMBDA c : c.kind = "comma")

Bodies(chunks) == [i \in 1..Len(RowsOf(chunks)) |-> RowsOf(chunks)[i].body]

\* the kind the i-th chunk must have when k rows have been emitted
KindAt(i, k) ==
    LET base == IF k = 0 THEN 1 ELSE 2 * k
    IN  IF i = 1 THEN "open"
        ELSE IF i <= base THEN (IF i % 2 = 0 THEN "row" ELSE "comma")
        ELSE IF i = base + 1 THEN "close_rows"
        ELSE IF i = base + 2 THEN "tail"
        ELSE IF i = base + 3 THEN "close"
        ELSE "nothing"

\* C18: in both modes the chunks delivered are, in order, one opening marker, the rows
\* with one comma between every two consecutive rows (none before the first, none
\* after the last, also across pages and months), one array-closing marker, one trailer
\* and one closing brace, so k rows come with max(k-1, 0) commas; and the rows are in
\* the order the source returned them: each page adds its rows, in order, at the end.
C18_ChunkOrder ==
    /\ [](\A i \in 1..Len(out) : out[i].kind = KindAt(i, Len(EmittedRows)))
    /\ [](Done =>
            /\ Len(out) = (IF EmittedRows = <<>> THEN 1 ELSE 2 * Len(EmittedRows)) + 3
            /\ Len(Commas) = (IF EmittedRows = <<>> THEN 0 ELSE Len(EmittedRows) - 1))
    /\ [][Bodies(out') =
            Bodies(out) \o (IF pc = "fetch" /\ rr.state = "returned"
                            THEN ToDicts(rr.resp.rows) ELSE <<>>)]_vars

\* two rows of different months, each on a page of its own
C18_Witness ==
    /\ Done
    /\ mode = "monthly"
    /\ held = HeldRows(1, 1)
    /\ Len(EmittedRows) = 2
    /\ Len(Commas) = 1
    /\ pages = 2

\* C19: every request an export sends to the source, page fetch or aggregate query,
\* carries the per-call timeout, and an export fails on a remote failure only after the
\* failing request has been attempted GA4_MAX_RETRIES times.
C19_EveryRequestRetriedAndTimed ==
    /\ wire.last.kind # "none" => wire.last.timeout = GA4_TIMEOUT_SECONDS
    /\ (pc = "failed" /\ wire.last.kind = "page") => rr.calls = GA4_MAX_RETRIES
    /\ (pc = "failed" /\ wire.last.kind = "agg") => wire.agg = GA4_MAX_RETRIES

\* C21: in a whole-range export the page counter never exceeds max_pages, at most
\* max_pages page fetches return, at most max_pages x GA4_MAX_RETRIES attempts of page
\* fetches are made, and an export that has started leaves the page loop, to produce
\* its trailer or with a failure, whatever rows, row counts and continuation tokens the
\* source answers with.
C21_WholeExportTerminates ==
    /\ [](mode = "whole" =>
            /\ pages <= params.max_pages
            /\ wire.ok <= params.max_pages
            /\ wire.page <= params.max_pages * GA4_MAX_RETRIES)
    /\ ((mode = "whole" /\ pc = "open") ~> (pc \in {"tail", "done", "failed"}))

\* the cap stops an export that the source keeps feeding, after every attempt allowed
C21_Witness ==
    /\ Done
    /\ mode = "whole"
    /\ params.max_pages = 1
    /\ pages = params.max_pages
    /\ wire.ok = params.max_pages
    /\ wire.page = params.max_pages * GA4_MAX_RETRIES
    /\ total_rows_reported = MaxRows + 1

\* C22: a call of _run_report has logged exactly one record per attempt made so far; the
\* i-th record carries attempt number i, the status of the i-th remote call (200 when it
\* returned), the sleep computed for it in milliseconds (0 when it returned) and the
\* request id of the export; and it has slept once, for the computed time, after every
\* failed attempt but the one that raised.
C22_OneLogRecordPerAttempt ==
    /\ Len(rr.log) = rr.calls
    /\ \A i \in 1..Len(rr.log) :
          /\ rr.log[i].attempt = i
          /\ rr.log[i].request_id = params.rid
          /\ rr.log[i].status = rr.history[i].status
          /\ rr.history[i].ok => rr.log[i].status = 200 /\ rr.log[i].sleep_ms = 0
          /\ ~rr.history[i].ok =>
                rr.log[i].sleep_ms =
                    RetrySleep(i, rr.history[i].jitter, rr.history[i].retry_after)
    /\ Len(rr.slept) = (IF rr.state = "running" THEN rr.calls
                        ELSE IF rr.state = "idle" THEN 0 ELSE rr.calls - 1)
    /\ \A i \in 1..Len(rr.slept) : ~rr.history[i].ok /\ rr.slept[i] = rr.log[i].sleep_ms

\* two failures and a success: three records, two sleeps
C22_Witness ==
    /\ rr.state = "returned"
    /\ rr.calls = GA4_MAX_RETRIES
    /\ Len(rr.log) = GA4_MAX_RETRIES
    /\ rr.log[1].status = 429
    /\ rr.log[2].status = 503
    /\ rr.log[GA4_MAX_RETRIES].status = 200
    /\ Len(rr.slept) = GA4_MAX_RETRIES - 1

\* C23: converting a row never raises; the result has the 8 dimensions and then the 9
\* metrics, in schema order; a metric value that is the text of a number becomes that
\* number, and one that is empty, absent or any other text becomes null.
C23_RowConversion ==
    rowconv.called =>
        /\ rowconv.outcome.raised = "none"
        /\ [k \in 1..Len(rowconv.outcome.d) |-> rowconv.outcome.d[k][1]] = _dims \o _mets
        /\ \A j \in 1..Len(_mets) :
              LET val == rowconv.row.metric_values[j]
                  x == rowconv.outcome.d[Len(_dims) + j][2]
              IN  IF val.t = "num" THEN x = Float(val.v) ELSE x = Null

====
